---- MODULE Spec2Model ----
(***************************************************************************)
(* Round-optimal robust threshold ECDSA: the PVSS / MtA / DLEQ proof       *)
(* machinery of src/src/utils.rs and the five-round orchestration of       *)
(* src/src/main.rs.                                                        *)
(*                                                                         *)
(* Groups are scaled down.  The curve group (secp256k1, prime order q) is  *)
(* the additive group Z_Q, a point being its discrete logarithm to         *)
(* G::generator().  The class group of CL_HSMqk is <h> x <f>, with f of    *)
(* order Q and h of order HOrder; an element is the pair <<a, b>> standing *)
(* for h^a f^b.  Mpz values are naturals, never reduced.  A SHA-256 digest *)
(* is the pair of the bytes hashed (tr) and the scalar read from the       *)
(* digest (val): two digests are equal exactly when the bytes hashed are   *)
(* equal (the hash is collision-free), and val is what the arithmetic uses.*)
(***************************************************************************)
EXTENDS Integers, Sequences, FiniteSets, TLC

\* Order of the curve group: Zq = Scalar<Secp256k1>.
Q == 5
\* Order of h in the class group (it is not Q: CL_HSMqk keeps it coprime to q).
HOrder == 2
\* Parties and threshold of the run.
N == 3
T == 2
\* Exponents drawn by rng.random_mpz(encrypt_randomness_bound) are 0..MaxRand.
MaxRand == 1

Zq == 0 .. (Q - 1)
Ids == 1 .. N
Mpzs == 0 .. MaxRand

VARIABLES
    \* the step a run of the proof machinery has reached
    phase,
    \* PubParams, the parties' class-group secret keys, the curve generator
    pub_params, cl_sk, curve_gen,
    \* PvssDealing::new's return value, the dealing a verifier holds, whether it
    \* was changed on the way, the PvssNizk, and verify's answer
    dealt, received, tampered, pvss_proof, pvss_verdict,
    \* the slice of dealings handed to JointPvssResult::new, how the call ended,
    \* and the JointPvssResult it returned
    verified_dealings, joint_outcome, joint,
    \* the dealer's scalar, MtaDealing::new's return value, the MtaNizk, the
    \* scalar committed in the scalar_pub handed to verify, and verify's answer
    mta_scalar, mta, mta_proof, verify_scalar, mta_verdict,
    \* DleqNizk: the arguments of prove, the proof, and verify's answer
    dleq, dleq_proof, dleq_verdict,
    \* protocol_dkg_presign_sign, per party: where the party is, the rounds whose
    \* collection completed, the parties of its x_dkg_output, the party list it
    \* handed to each stage, the transport failure it met, and how it ended
    pc, collected, x_parties, handed, failure, result,
    \* the broadcasts sent so far, and the parties whose proofs may be invalid
    network, corrupt,
    \* the msg argument of the run, and each party's PreSignature (none before
    \* it is assembled)
    sign_msg, presignature,
    \* a call of one of the constructors and evaluators on its own: the
    \* arguments, and what the call returned
    args, returned

paramVars == <<pub_params, cl_sk, curve_gen>>
pvssVars == <<dealt, received, tampered, pvss_proof, pvss_verdict>>
jointVars == <<verified_dealings, joint_outcome, joint>>
mtaVars == <<mta_scalar, mta, mta_proof, verify_scalar, mta_verdict>>
dleqVars == <<dleq, dleq_proof, dleq_verdict>>
protoVars ==
    <<pc, collected, x_parties, handed, failure, result, network, corrupt,
      sign_msg, presignature>>
fnVars == <<args, returned>>
vars == <<phase, paramVars, pvssVars, jointVars, mtaVars, dleqVars, protoVars, fnVars>>

(***************************** scalar field ********************************)
ZqAdd(a, b) == (a + b) % Q
ZqMul(a, b) == (a * b) % Q
ZqNeg(a) == (Q - a) % Q
\* Zq::from(id as u64)
ZqFrom(k) == k % Q
\* Mpz::from(&Zq): the representative in 0 .. Q-1
MpzFrom(x) == x

(***************************** curve group *********************************)
GZero == 0
GGenerator == 1
PtAdd(p, r) == (p + r) % Q
PtNeg(p) == (Q - p) % Q
PtSub(p, r) == PtAdd(p, PtNeg(r))
PtMul(p, x) == (p * x) % Q

(***************************** class group *********************************)
ClOne == <<0, 0>>
ClCompose(x, y) == <<(x[1] + y[1]) % HOrder, (x[2] + y[2]) % Q>>
\* QFI::exp with a non-negative Mpz exponent
ClExp(x, k) == <<(x[1] * k) % HOrder, (x[2] * k) % Q>>
PowerOfH(k) == <<k % HOrder, 0>>
PowerOfF(m) == <<0, m % Q>>
QFIs == (0 .. (HOrder - 1)) \X Zq
\* public_key_gen: pk = h^sk
PublicKeyGen(sk) == PowerOfH(sk)
\* CL decryption of (c1, c2) under sk: the discrete log of c2 / c1^sk in <f>,
\* defined when the quotient lies in <f>.
ClInverse(x) == <<(HOrder - x[1]) % HOrder, (Q - x[2]) % Q>>
Decrypt(sk, c1, c2) ==
    LET m == ClCompose(c2, ClInverse(ClExp(c1, sk)))
    IN  IF m[1] = 0 THEN m[2] ELSE -1

(***************************** polynomials *********************************)
\* A BTreeMap iterates in ascending key order.
RECURSIVE SortedIds(_)
SortedIds(S) ==
    IF S = {} THEN <<>>
    ELSE LET m == CHOOSE x \in S : \A y \in S : x <= y
         IN  <<m>> \o SortedIds(S \ {m})

\* .take_while(|(&id, _)| id < degree)
RECURSIVE TakeWhileBelow(_, _)
TakeWhileBelow(ids, degree) ==
    IF ids = <<>> \/ ids[1] >= degree THEN <<>>
    ELSE <<ids[1]>> \o TakeWhileBelow(Tail(ids), degree)

\* .take_while(|(&id, _)| id <= degree): the ids up to the first one above degree
RECURSIVE TakeWhile(_, _)
TakeWhile(ids, degree) ==
    IF ids = <<>> \/ ids[1] > degree THEN <<>>
    ELSE <<ids[1]>> \o TakeWhile(Tail(ids), degree)

\* vec![identity; len]
RECURSIVE VecOf(_, _)
VecOf(identity, len) ==
    IF len = 0 THEN <<>> ELSE <<identity>> \o VecOf(identity, len - 1)

\* .for_each(|(&id, coeff)| coeffs[id as usize] = coeff.clone()); position id of
\* the Vec is index id + 1 of the sequence
RECURSIVE ForEachAssign(_, _, _)
ForEachAssign(coeffs, some_coeffs, ids) ==
    IF ids = <<>> THEN coeffs
    ELSE ForEachAssign([coeffs EXCEPT ![ids[1] + 1] = some_coeffs[ids[1]]],
                       some_coeffs, Tail(ids))

\* coeffs[id as usize] panics when id is past the end of the Vec of degree + 1
\* entries
NewPanics(degree, some_coeffs) ==
    LET ids == TakeWhile(SortedIds(DOMAIN some_coeffs), degree)
    IN  \E i \in 1 .. Len(ids) : ids[i] + 1 > degree + 1

\* Sparse-to-dense lift: vec![identity; degree + 1], then the assignments.
PolynomialNew(degree, some_coeffs) ==
    ForEachAssign(VecOf(0, degree + 1), some_coeffs,
                  TakeWhile(SortedIds(DOMAIN some_coeffs), degree))

CurvePolynomialNew(degree, some_coeffs) ==
    ForEachAssign(VecOf(GZero, degree + 1), some_coeffs,
                  TakeWhile(SortedIds(DOMAIN some_coeffs), degree))

QFPolynomialNew(degree, some_coeffs) ==
    ForEachAssign(VecOf(ClOne, degree + 1), some_coeffs,
                  TakeWhile(SortedIds(DOMAIN some_coeffs), degree))

\* Horner with the accumulator starting at Zq::from(1)
RECURSIVE PolynomialEvalFromOne(_, _)
PolynomialEvalFromOne(coeffs, x) ==
    IF coeffs = <<>> THEN 1
    ELSE ZqAdd(ZqMul(PolynomialEvalFromOne(Tail(coeffs), x), x), coeffs[1])

\* Horner, from the highest coefficient down: result = result * x + coeffs[i].
RECURSIVE PolynomialEval(_, _)
PolynomialEval(coeffs, x) ==
    IF coeffs = <<>> THEN 0
    ELSE ZqAdd(ZqMul(PolynomialEval(Tail(coeffs), x), x), coeffs[1])

RECURSIVE CurvePolynomialEval(_, _)
CurvePolynomialEval(coeffs, x) ==
    IF coeffs = <<>> THEN GZero
    ELSE PtAdd(PtMul(CurvePolynomialEval(Tail(coeffs), x), x), coeffs[1])

\* result = result.exp(x).compose(coeffs[i]), x as an Mpz
RECURSIVE QFPolynomialEval(_, _)
QFPolynomialEval(coeffs, x) ==
    IF coeffs = <<>> THEN ClOne
    ELSE ClCompose(ClExp(QFPolynomialEval(Tail(coeffs), x), MpzFrom(x)), coeffs[1])

\* from_exp committing to G::generator() whatever generator it is handed
CurvePolynomialFromExpBaseGenerator(coeffs, generator) ==
    [i \in 1 .. Len(coeffs) |-> PtMul(GGenerator, coeffs[i])]

CurvePolynomialFromExp(coeffs, generator) ==
    [i \in 1 .. Len(coeffs) |-> PtMul(generator, coeffs[i])]

(***************************** hashing *************************************)
\* to_bytes of a class-group element, of a point, of an id
QFBytes(x) == x[1] * Q + x[2]

\* for (id, x) in &map { update(id); update(x.to_bytes()) }
RECURSIVE QFMapBytesOver(_, _)
QFMapBytesOver(m, ids) ==
    IF ids = <<>> THEN <<>>
    ELSE <<ids[1], QFBytes(m[ids[1]])>> \o QFMapBytesOver(m, Tail(ids))
QFMapBytes(m) == QFMapBytesOver(m, SortedIds(DOMAIN m))

RECURSIVE PtMapBytesOver(_, _)
PtMapBytesOver(m, ids) ==
    IF ids = <<>> THEN <<>>
    ELSE <<ids[1], m[ids[1]]>> \o PtMapBytesOver(m, Tail(ids))
PtMapBytes(m) == PtMapBytesOver(m, SortedIds(DOMAIN m))

\* The scalar Zq::from_bytes reads from the first 16 bytes of the digest of tr:
\* some fixed function of the bytes hashed, any scalar being a possible value.
RECURSIVE Absorb(_, _, _)
Absorb(h, tr, i) ==
    IF i > Len(tr) THEN h ELSE Absorb((2 * h + tr[i] + i) % Q, tr, i + 1)
DigestScalar(tr) == Absorb(Len(tr) % Q, tr, 1)
Sha256(tr) == [tr |-> tr, val |-> DigestScalar(tr)]

(***************************** multi-receiver encryption *******************)
\* new drawing the exponent of each component afresh
CLMultiRecvCiphertextNewFreshExponents(keyring, plaintexts, r) ==
    [randomness |-> PowerOfH(r),
     encryption |-> [id \in DOMAIN plaintexts |->
         ClCompose(PowerOfF(MpzFrom(plaintexts[id])), ClExp(keyring[id], r + id))]]

\* r is the value of rng.random_mpz(encrypt_randomness_bound), drawn once.
CLMultiRecvCiphertextNew(keyring, plaintexts, r) ==
    [randomness |-> PowerOfH(r),
     encryption |-> [id \in DOMAIN plaintexts |->
         ClCompose(PowerOfF(MpzFrom(plaintexts[id])), ClExp(keyring[id], r))]]

(***************************** PVSS dealing and proof **********************)
\* poly_coeffs are the t values of Zq::random(), r the encryption randomness.
PvssDealingNew(pp, poly_coeffs, r, curve_generator) ==
    LET shares == [id \in 1 .. pp.n |-> PolynomialEval(poly_coeffs, ZqFrom(id))]
    IN  [dealing |->
            [curve_polynomial |-> CurvePolynomialFromExp(poly_coeffs, curve_generator),
             shares_ciphertext |-> CLMultiRecvCiphertextNew(pp.cl_keyring, shares, r)],
         r |-> r,
         poly |-> poly_coeffs,
         shares |-> shares]

\* challenge1 leaving the curve commitment out of the transcript
PvssChallenge1NoCommitment(pp, dealing, curve_generator) ==
    Sha256(<<pp.discriminant>>
           \o QFMapBytes(pp.cl_keyring)
           \o <<QFBytes(dealing.shares_ciphertext.randomness)>>
           \o QFMapBytes(dealing.shares_ciphertext.encryption)
           \o <<curve_generator>>)

PvssChallenge1(pp, dealing, curve_generator) ==
    Sha256(<<pp.discriminant>>
           \o QFMapBytes(pp.cl_keyring)
           \o <<QFBytes(dealing.shares_ciphertext.randomness)>>
           \o QFMapBytes(dealing.shares_ciphertext.encryption)
           \o <<curve_generator>>
           \o dealing.curve_polynomial)

PvssChallenge2(gamma, U1, U2, U3) ==
    Sha256(gamma.tr \o <<gamma.val, QFBytes(U1), U2, QFBytes(U3)>>)

PvssNizkProve(dealing, r, shares, pp, u1, u2, curve_generator) ==
    LET U1 == PowerOfH(u1)
        U2 == PtMul(curve_generator, u2)
        gamma == PvssChallenge1(pp, dealing, curve_generator)
        U3 == ClCompose(
                ClExp(QFPolynomialEval(QFPolynomialNew(pp.n, pp.cl_keyring), gamma.val), u1),
                PowerOfF(MpzFrom(u2)))
        e == PvssChallenge2(gamma, U1, U2, U3)
    IN  [e |-> e,
         z1 |-> u1 + MpzFrom(e.val) * r,
         z2 |-> ZqAdd(u2, ZqMul(PolynomialEval(PolynomialNew(pp.n, shares), gamma.val), e.val))]

PvssNizkVerify(proof, dealing, pp, curve_generator) ==
    LET gamma == PvssChallenge1(pp, dealing, curve_generator)
        minus_e == MpzFrom(ZqNeg(proof.e.val))
        U1d == ClExp(dealing.shares_ciphertext.randomness, minus_e)
        U1 == ClCompose(PowerOfH(proof.z1), U1d)
        shares_on_curve ==
            [id \in 1 .. pp.n |-> CurvePolynomialEval(dealing.curve_polynomial, ZqFrom(id))]
        shares_curve_poly == CurvePolynomialNew(pp.n, shares_on_curve)
        U2 == PtSub(PtMul(curve_generator, proof.z2),
                    PtMul(CurvePolynomialEval(shares_curve_poly, gamma.val), proof.e.val))
        U3d == ClExp(QFPolynomialEval(
                        QFPolynomialNew(pp.n, dealing.shares_ciphertext.encryption),
                        gamma.val),
                     minus_e)
        U3 == ClCompose(
                ClCompose(
                    ClExp(QFPolynomialEval(QFPolynomialNew(pp.n, pp.cl_keyring), gamma.val),
                          proof.z1),
                    PowerOfF(MpzFrom(proof.z2))),
                U3d)
        e == PvssChallenge2(gamma, U1, U2, U3)
    IN  proof.e = e

(***************************** joint combination ***************************)
\* .reduce(|_, E| E): the accumulator dropped
RECURSIVE ReduceComposeKeepLast(_, _)
ReduceComposeKeepLast(acc, rest) ==
    IF rest = <<>> THEN acc
    ELSE ReduceComposeKeepLast(rest[1], Tail(rest))

\* .reduce(|acc, x| acc.compose(x)): a left fold over a non-empty list
RECURSIVE ReduceCompose(_, _)
ReduceCompose(acc, rest) ==
    IF rest = <<>> THEN acc
    ELSE ReduceCompose(ClCompose(acc, rest[1]), Tail(rest))

\* .reduce(|_, M| M): the accumulator dropped
RECURSIVE ReducePtAddKeepLast(_, _)
ReducePtAddKeepLast(acc, rest) ==
    IF rest = <<>> THEN acc
    ELSE ReducePtAddKeepLast(rest[1], Tail(rest))

RECURSIVE ReducePtAdd(_, _)
ReducePtAdd(acc, rest) ==
    IF rest = <<>> THEN acc
    ELSE ReducePtAdd(PtAdd(acc, rest[1]), Tail(rest))

\* curve_coeffs[i] = &curve_coeffs[i] + coeff, dealings in slice order
RECURSIVE SumCurveCoeffs(_, _)
SumCurveCoeffs(acc, dealings) ==
    IF dealings = <<>> THEN acc
    ELSE LET c == dealings[1].curve_polynomial
         IN  SumCurveCoeffs(
                [i \in 1 .. Len(acc) |-> IF i <= Len(c) THEN PtAdd(acc[i], c[i]) ELSE acc[i]],
                Tail(dealings))

\* JointPvssResult::new panics when curve_coeffs[i] is indexed past t, and when
\* reduce(..) yields None (no dealing) and is unwrapped.
JointPvssResultPanics(pp, dealings) ==
    \/ \E k \in 1 .. Len(dealings) : Len(dealings[k].curve_polynomial) > pp.t
    \/ dealings = <<>>

\* The value returned when it does not panic.
JointPvssResultNew(pp, dealings) ==
    LET rands == [k \in 1 .. Len(dealings) |-> dealings[k].shares_ciphertext.randomness]
        encs(id) == [k \in 1 .. Len(dealings) |->
                        IF id \in DOMAIN dealings[k].shares_ciphertext.encryption
                        THEN dealings[k].shares_ciphertext.encryption[id]
                        ELSE ClOne]
        macs(id) == [k \in 1 .. Len(dealings) |->
                        CurvePolynomialEval(dealings[k].curve_polynomial, ZqFrom(id))]
    IN  [curve_polynomial |-> SumCurveCoeffs([i \in 1 .. pp.t |-> GZero], dealings),
         shares_ciphertext |->
            [randomness |-> ReduceCompose(rands[1], Tail(rands)),
             encryption |-> [id \in 1 .. pp.n |->
                                ReduceCompose(encs(id)[1], Tail(encs(id)))]],
         curve_macs |-> [id \in 1 .. pp.n |-> ReducePtAdd(macs(id)[1], Tail(macs(id)))]]

(***************************** MtA dealing and proof ***********************)
\* MtaDealing::new leaving the ciphertext randomness as it was
MtaDealingNewStaleRandomness(pp, pvss, scalar, pairwise_shares, curve_generator) ==
    LET multienc == pvss.shares_ciphertext.encryption
    IN  [dealing |->
            [shares_ciphertext |->
                [randomness |-> pvss.shares_ciphertext.randomness,
                 encryption |-> [id \in DOMAIN multienc |->
                     ClCompose(ClExp(multienc[id], MpzFrom(scalar)),
                               PowerOfF(MpzFrom(pairwise_shares[id])))]],
             curve_macs |-> [id \in DOMAIN pvss.curve_macs |->
                 PtAdd(PtMul(pvss.curve_macs[id], scalar),
                       PtMul(curve_generator, pairwise_shares[id]))]],
         pairwise_shares |-> pairwise_shares]

\* pairwise_shares are the values of Zq::random(), one per id of the ciphertext.
MtaDealingNew(pp, pvss, scalar, pairwise_shares, curve_generator) ==
    LET multienc == pvss.shares_ciphertext.encryption
    IN  [dealing |->
            [shares_ciphertext |->
                [randomness |-> ClExp(pvss.shares_ciphertext.randomness, MpzFrom(scalar)),
                 encryption |-> [id \in DOMAIN multienc |->
                     ClCompose(ClExp(multienc[id], MpzFrom(scalar)),
                               PowerOfF(MpzFrom(pairwise_shares[id])))]],
             curve_macs |-> [id \in DOMAIN pvss.curve_macs |->
                 PtAdd(PtMul(pvss.curve_macs[id], scalar),
                       PtMul(curve_generator, pairwise_shares[id]))]],
         pairwise_shares |-> pairwise_shares]

\* challenge1 leaving scalar_pub out of the transcript
MtaChallenge1NoScalarPub(pp, pvss_result, mta_dealing, curve_generator, scalar_pub) ==
    Sha256(<<pp.discriminant>>
           \o <<QFBytes(pvss_result.shares_ciphertext.randomness)>>
           \o QFMapBytes(pvss_result.shares_ciphertext.encryption)
           \o <<QFBytes(mta_dealing.shares_ciphertext.randomness)>>
           \o QFMapBytes(mta_dealing.shares_ciphertext.encryption)
           \o PtMapBytes(pvss_result.curve_macs)
           \o PtMapBytes(mta_dealing.curve_macs)
           \o <<curve_generator>>)

MtaChallenge1(pp, pvss_result, mta_dealing, curve_generator, scalar_pub) ==
    Sha256(<<pp.discriminant>>
           \o <<QFBytes(pvss_result.shares_ciphertext.randomness)>>
           \o QFMapBytes(pvss_result.shares_ciphertext.encryption)
           \o <<QFBytes(mta_dealing.shares_ciphertext.randomness)>>
           \o QFMapBytes(mta_dealing.shares_ciphertext.encryption)
           \o PtMapBytes(pvss_result.curve_macs)
           \o PtMapBytes(mta_dealing.curve_macs)
           \o <<curve_generator>>
           \o <<scalar_pub>>)

MtaChallenge2(gamma, U1, U2, U3, U4) ==
    Sha256(gamma.tr \o <<gamma.val, U1, QFBytes(U2), QFBytes(U3), U4>>)

MtaNizkProve(pp, pvss_result, mta_dealing, curve_generator, u1, u2, scalar, pairwise_shares) ==
    LET gamma == MtaChallenge1(pp, pvss_result, mta_dealing, curve_generator,
                               PtMul(curve_generator, scalar))
        u1_modq == u1 % Q
        U1 == PtMul(GGenerator, u1_modq)
        U2 == ClExp(pvss_result.shares_ciphertext.randomness, u1)
        U3 == ClCompose(
                ClExp(QFPolynomialEval(
                        QFPolynomialNew(pp.n, pvss_result.shares_ciphertext.encryption),
                        gamma.val),
                      u1),
                PowerOfF(MpzFrom(u2)))
        U4 == PtAdd(PtMul(CurvePolynomialEval(
                            CurvePolynomialNew(pp.n, pvss_result.curve_macs), gamma.val),
                          u1_modq),
                    PtMul(curve_generator, u2))
        e == MtaChallenge2(gamma, U1, U2, U3, U4)
    IN  [e |-> e,
         z1 |-> u1 + MpzFrom(ZqMul(e.val, scalar)),
         z2 |-> ZqAdd(ZqMul(PolynomialEval(PolynomialNew(pp.n, pairwise_shares), gamma.val),
                            e.val),
                      u2)]

MtaNizkVerify(proof, pp, pvss_result, mta_dealing, curve_generator, scalar_pub) ==
    LET gamma == MtaChallenge1(pp, pvss_result, mta_dealing, curve_generator, scalar_pub)
        z1_modq == proof.z1 % Q
        minus_e == MpzFrom(ZqNeg(proof.e.val))
        U1 == PtSub(PtMul(GGenerator, z1_modq), PtMul(scalar_pub, proof.e.val))
        U2 == ClCompose(ClExp(pvss_result.shares_ciphertext.randomness, proof.z1),
                        ClExp(mta_dealing.shares_ciphertext.randomness, minus_e))
        U3d == ClExp(QFPolynomialEval(
                        QFPolynomialNew(pp.n, mta_dealing.shares_ciphertext.encryption),
                        gamma.val),
                     minus_e)
        U3 == ClCompose(
                ClCompose(
                    ClExp(QFPolynomialEval(
                            QFPolynomialNew(pp.n, pvss_result.shares_ciphertext.encryption),
                            gamma.val),
                          proof.z1),
                    PowerOfF(MpzFrom(proof.z2))),
                U3d)
        U4 == PtSub(
                PtAdd(PtMul(curve_generator, proof.z2),
                      PtMul(CurvePolynomialEval(
                                CurvePolynomialNew(pp.n, pvss_result.curve_macs), gamma.val),
                            z1_modq)),
                PtMul(CurvePolynomialEval(
                          CurvePolynomialNew(pp.n, mta_dealing.curve_macs), gamma.val),
                      proof.e.val))
        e == MtaChallenge2(gamma, U1, U2, U3, U4)
    IN  e = proof.e

(***************************** DLEQ proof **********************************)
DleqChallenge(gen1, pow1, gen2, pow2, U1, U2) ==
    Sha256(<<gen1, pow1, gen2, pow2, U1, U2>>)

\* u is the value of Zq::random()
DleqNizkProve(gen1, pow1, gen2, pow2, x, u) ==
    LET U1 == PtMul(gen1, u)
        U2 == PtMul(gen2, u)
        e == DleqChallenge(gen1, pow1, gen2, pow2, U1, U2)
    IN  [e |-> e, z |-> ZqAdd(u, ZqMul(e.val, x))]

\* verify with pow1 where pow2 belongs
DleqNizkVerifyPow1Twice(proof, gen1, pow1, gen2, pow2) ==
    LET U1 == PtSub(PtMul(gen1, proof.z), PtMul(pow1, proof.e.val))
        U2 == PtSub(PtMul(gen2, proof.z), PtMul(pow1, proof.e.val))
        e == DleqChallenge(gen1, pow1, gen2, pow2, U1, U2)
    IN  e = proof.e

DleqNizkVerify(proof, gen1, pow1, gen2, pow2) ==
    LET U1 == PtSub(PtMul(gen1, proof.z), PtMul(pow1, proof.e.val))
        U2 == PtSub(PtMul(gen2, proof.z), PtMul(pow2, proof.e.val))
        e == DleqChallenge(gen1, pow1, gen2, pow2, U1, U2)
    IN  e = proof.e

(***************************** runs of the PVSS proof **********************)
\* Key rings over ids 1..=n: pk_id = h^{sk_id}; party 1's key is h itself.
SecretKeyRings == {sk \in [Ids -> 0 .. (HOrder - 1)] : sk[1] = 1}
\* Curve generators handed to the dealing: any point but the identity.
Generators == {1, 2}

PubParams(sk) ==
    [t |-> T, n |-> N, discriminant |-> HOrder,
     cl_keyring |-> [id \in Ids |-> PublicKeyGen(sk[id])]]

ParamsInit ==
    /\ cl_sk \in SecretKeyRings
    /\ pub_params = PubParams(cl_sk)
    /\ curve_gen \in Generators

PvssIdle ==
    /\ dealt = "none"
    /\ received = "none"
    /\ tampered = FALSE
    /\ pvss_proof = "none"
    /\ pvss_verdict = "none"

JointIdle ==
    /\ verified_dealings = <<>>
    /\ joint_outcome = "none"
    /\ joint = "none"

MtaIdle ==
    /\ mta_scalar = 0
    /\ mta = "none"
    /\ mta_proof = "none"
    /\ verify_scalar = 0
    /\ mta_verdict = "none"

DleqIdle ==
    /\ dleq = "none"
    /\ dleq_proof = "none"
    /\ dleq_verdict = "none"

FnIdle ==
    /\ args = "none"
    /\ returned = "none"

ProtoIdle ==
    /\ pc = <<>>
    /\ collected = <<>>
    /\ x_parties = <<>>
    /\ handed = <<>>
    /\ failure = <<>>
    /\ result = <<>>
    /\ network = {}
    /\ corrupt = {}
    /\ sign_msg = "none"
    /\ presignature = <<>>

InitPvss ==
    /\ phase = "start"
    /\ ParamsInit
    /\ PvssIdle
    /\ JointIdle
    /\ MtaIdle
    /\ DleqIdle
    /\ ProtoIdle
    /\ FnIdle

\* let (dealing, r, poly, shares) = PvssDealing::new(pub_params, rng, curve_gen)
PvssDeal ==
    /\ phase = "start"
    /\ \E poly_coeffs \in [1 .. pub_params.t -> Zq], r \in Mpzs :
          dealt' = PvssDealingNew(pub_params, poly_coeffs, r, curve_gen)
    /\ received' = dealt'.dealing
    /\ phase' = "dealt"
    /\ UNCHANGED <<fnVars, protoVars, paramVars, jointVars, mtaVars, dleqVars, tampered, pvss_proof, pvss_verdict>>

\* PvssNizk::prove(dealing, r, shares, pub_params, rng, curve_gen)
PvssProve ==
    /\ phase = "dealt"
    /\ \E u1 \in Mpzs, u2 \in Zq :
          pvss_proof' = PvssNizkProve(dealt.dealing, dealt.r, dealt.shares, pub_params,
                                      u1, u2, curve_gen)
    /\ phase' = "proved"
    /\ UNCHANGED <<fnVars, protoVars, paramVars, jointVars, mtaVars, dleqVars, dealt, received, tampered, pvss_verdict>>

\* What a changed place differs by: a non-zero multiple of G, or a non-trivial
\* class-group element (h, and f).
PointDeltas == {1, Q - 1}
QFIDeltas == {PowerOfH(1), PowerOfF(1)}

\* The dealing reaches the verifier changed in one place: one curve coefficient,
\* the ciphertext randomness, or one ciphertext component.
PvssPerturb ==
    /\ phase = "proved"
    /\ \/ \E i \in 1 .. Len(received.curve_polynomial), d \in PointDeltas :
            received' = [received EXCEPT !.curve_polynomial[i] = PtAdd(@, d)]
       \/ \E d \in QFIDeltas :
            received' = [received EXCEPT !.shares_ciphertext.randomness = ClCompose(@, d)]
       \/ \E id \in DOMAIN received.shares_ciphertext.encryption, d \in QFIDeltas :
            received' = [received EXCEPT
                            !.shares_ciphertext.encryption[id] = ClCompose(@, d)]
    /\ tampered' = TRUE
    /\ phase' = "perturbed"
    /\ UNCHANGED <<fnVars, protoVars, paramVars, jointVars, mtaVars, dleqVars, dealt, pvss_proof, pvss_verdict>>

\* proof.verify(dealing, pub_params, curve_gen)
PvssVerify ==
    /\ phase \in {"proved", "perturbed"}
    /\ pvss_verdict' = PvssNizkVerify(pvss_proof, received, pub_params, curve_gen)
    /\ phase' = "verified"
    /\ UNCHANGED <<fnVars, protoVars, paramVars, jointVars, mtaVars, dleqVars, dealt, received, tampered, pvss_proof>>

NextPvss == PvssDeal \/ PvssProve \/ PvssPerturb \/ PvssVerify

SpecPvss == InitPvss /\ [][NextPvss]_vars

(***************************** runs of the joint combination ***************)
\* Secret polynomials of the dealers whose dealings are combined.
DealerPolys == [1 .. T -> {1, 3}]
HonestDealings(pp, curve_generator) ==
    {PvssDealingNew(pp, c, r, curve_generator).dealing : c \in DealerPolys, r \in Mpzs}

InitJoint ==
    /\ phase = "collecting"
    /\ ParamsInit
    /\ PvssIdle
    /\ JointIdle
    /\ MtaIdle
    /\ DleqIdle
    /\ ProtoIdle
    /\ FnIdle

\* One more dealer's dealing passed PvssNizk::verify and joins the slice; there
\* is at most one dealing per party.
JointReceive ==
    /\ phase = "collecting"
    /\ Len(verified_dealings) < pub_params.n
    /\ \E d \in HonestDealings(pub_params, curve_gen) :
          verified_dealings' = Append(verified_dealings, d)
    /\ UNCHANGED <<fnVars, protoVars, phase, paramVars, pvssVars, joint_outcome, joint, mtaVars, dleqVars>>

\* JointPvssResult::new(pp, &dealings)
JointCombine ==
    /\ phase = "collecting"
    /\ IF JointPvssResultPanics(pub_params, verified_dealings)
       THEN /\ joint_outcome' = "panic"
            /\ joint' = "none"
       ELSE /\ joint_outcome' = "returned"
            /\ joint' = JointPvssResultNew(pub_params, verified_dealings)
    /\ phase' = "combined"
    /\ UNCHANGED <<fnVars, protoVars, paramVars, pvssVars, verified_dealings, mtaVars, dleqVars>>

NextJoint == JointReceive \/ JointCombine

SpecJoint == InitJoint /\ [][NextJoint]_vars

(***************************** runs of the MtA proof ***********************)
\* The pairwise shares Zq::random() yields, one per id.
PairwiseShares == {[id \in Ids |-> ZqMul(b, ZqFrom(id))] : b \in {1, 4}}

\* The JointPvssResult at hand is that of one honest dealing.
InitMta ==
    /\ phase = "start"
    /\ ParamsInit
    /\ PvssIdle
    /\ verified_dealings \in
          {<<d>> : d \in HonestDealings(pub_params, curve_gen)}
    /\ joint_outcome = "returned"
    /\ joint = JointPvssResultNew(pub_params, verified_dealings)
    /\ MtaIdle
    /\ DleqIdle
    /\ ProtoIdle
    /\ FnIdle

\* let (dealing, pairwise_shares) = MtaDealing::new(pp, pvss, scalar, generator)
MtaDeal ==
    /\ phase = "start"
    /\ \E scalar \in Zq, pairwise_shares \in PairwiseShares :
          /\ mta_scalar' = scalar
          /\ mta' = MtaDealingNew(pub_params, joint, scalar, pairwise_shares, curve_gen)
    /\ phase' = "dealt"
    /\ UNCHANGED <<fnVars, protoVars, paramVars, pvssVars, jointVars, mta_proof, verify_scalar,
                   mta_verdict, dleqVars>>

\* MtaNizk::prove(pp, pvss_result, mta_dealing, generator, rng, scalar, pairwise_shares)
MtaProve ==
    /\ phase = "dealt"
    /\ \E u1 \in Mpzs, u2 \in Zq :
          mta_proof' = MtaNizkProve(pub_params, joint, mta.dealing, curve_gen,
                                    u1, u2, mta_scalar, mta.pairwise_shares)
    /\ phase' = "proved"
    /\ UNCHANGED <<fnVars, protoVars, paramVars, pvssVars, jointVars, mta_scalar, mta, verify_scalar,
                   mta_verdict, dleqVars>>

\* proof.verify(pp, pvss_result, mta_dealing, generator, scalar_pub), the
\* verifier holding scalar_pub = generator * s
MtaVerify ==
    /\ phase = "proved"
    /\ \E s \in Zq :
          /\ verify_scalar' = s
          /\ mta_verdict' = MtaNizkVerify(mta_proof, pub_params, joint, mta.dealing,
                                          curve_gen, PtMul(curve_gen, s))
    /\ phase' = "verified"
    /\ UNCHANGED <<fnVars, protoVars, paramVars, pvssVars, jointVars, mta_scalar, mta, mta_proof, dleqVars>>

NextMta == MtaDeal \/ MtaProve \/ MtaVerify

SpecMta == InitMta /\ [][NextMta]_vars

(***************************** runs of the DLEQ proof **********************)
Points == 0 .. (Q - 1)

InitDleq ==
    /\ phase = "start"
    /\ pub_params = "none"
    /\ cl_sk = "none"
    /\ curve_gen = GGenerator
    /\ PvssIdle
    /\ JointIdle
    /\ MtaIdle
    /\ dleq \in [gen1 : Points, pow1 : Points, gen2 : Points, pow2 : Points, x : Zq]
    /\ dleq_proof = "none"
    /\ dleq_verdict = "none"
    /\ ProtoIdle
    /\ FnIdle

\* DleqNizk::prove(gen1, pow1, gen2, pow2, x)
DleqProve ==
    /\ phase = "start"
    /\ \E u \in Zq :
          dleq_proof' = DleqNizkProve(dleq.gen1, dleq.pow1, dleq.gen2, dleq.pow2, dleq.x, u)
    /\ phase' = "proved"
    /\ UNCHANGED <<fnVars, protoVars, paramVars, pvssVars, jointVars, mtaVars, dleq, dleq_verdict>>

\* proof.verify(gen1, pow1, gen2, pow2)
DleqVerify ==
    /\ phase = "proved"
    /\ dleq_verdict' = DleqNizkVerify(dleq_proof, dleq.gen1, dleq.pow1, dleq.gen2, dleq.pow2)
    /\ phase' = "verified"
    /\ UNCHANGED <<fnVars, protoVars, paramVars, pvssVars, jointVars, mtaVars, dleq, dleq_proof>>

NextDleq == DleqProve \/ DleqVerify

SpecDleq == InitDleq /\ [][NextDleq]_vars

(***************************** runs of the polynomial constructors *********)
\* Degrees handed to new are 0 .. MaxDegree; the keys of a sparse map reach one
\* past the largest degree.
MaxDegree == 2
LiftKeys == 0 .. (MaxDegree + 1)

\* The coefficients a run draws from, in each structure (the identity first).
ZqTable == <<0, 1, 3>>
PtTable == <<GZero, 2, 4>>
QFTable == <<ClOne, PowerOfH(1), ClCompose(PowerOfH(1), PowerOfF(2))>>
TableIndices == 1 .. 3

\* A sparse map or a vector given by table indices, read in one structure.
InTable(table, indices) == [k \in DOMAIN indices |-> table[indices[k]]]

SparseMaps == UNION {[K -> TableIndices] : K \in SUBSET LiftKeys}

\* No parameters and no proof machinery are involved in a call on its own.
NoParams ==
    /\ pub_params = "none"
    /\ cl_sk = "none"
    /\ curve_gen = GGenerator

InitLift ==
    /\ phase = "start"
    /\ NoParams
    /\ PvssIdle
    /\ JointIdle
    /\ MtaIdle
    /\ DleqIdle
    /\ ProtoIdle
    /\ args \in [degree : 0 .. MaxDegree, some_coeffs : SparseMaps]
    /\ returned = "none"

\* Polynomial::new(degree, &some_coeffs)
LiftZq ==
    /\ phase = "start"
    /\ LET some_coeffs == InTable(ZqTable, args.some_coeffs)
       IN  returned' = [structure |-> "Zq", some_coeffs |-> some_coeffs,
                        panicked |-> NewPanics(args.degree, some_coeffs),
                        coeffs |-> PolynomialNew(args.degree, some_coeffs)]
    /\ phase' = "lifted"
    /\ UNCHANGED <<paramVars, pvssVars, jointVars, mtaVars, dleqVars, protoVars, args>>

\* CurvePolynomial::new(degree, &some_coeffs)
LiftCurve ==
    /\ phase = "start"
    /\ LET some_coeffs == InTable(PtTable, args.some_coeffs)
       IN  returned' = [structure |-> "G", some_coeffs |-> some_coeffs,
                        panicked |-> NewPanics(args.degree, some_coeffs),
                        coeffs |-> CurvePolynomialNew(args.degree, some_coeffs)]
    /\ phase' = "lifted"
    /\ UNCHANGED <<paramVars, pvssVars, jointVars, mtaVars, dleqVars, protoVars, args>>

\* QFPolynomial::new(cl, degree, &some_coeffs)
LiftQF ==
    /\ phase = "start"
    /\ LET some_coeffs == InTable(QFTable, args.some_coeffs)
       IN  returned' = [structure |-> "QF", some_coeffs |-> some_coeffs,
                        panicked |-> NewPanics(args.degree, some_coeffs),
                        coeffs |-> QFPolynomialNew(args.degree, some_coeffs)]
    /\ phase' = "lifted"
    /\ UNCHANGED <<paramVars, pvssVars, jointVars, mtaVars, dleqVars, protoVars, args>>

NextLift == LiftZq \/ LiftCurve \/ LiftQF

SpecLift == InitLift /\ [][NextLift]_vars

(***************************** runs of the polynomial evaluators ***********)
\* Coefficient vectors have 0 .. MaxLen entries.
MaxLen == 3
CoeffVectors(len) == [1 .. len -> TableIndices]

InitEval ==
    /\ phase = "start"
    /\ NoParams
    /\ PvssIdle
    /\ JointIdle
    /\ MtaIdle
    /\ DleqIdle
    /\ ProtoIdle
    /\ \E len \in 0 .. MaxLen :
          args \in [p1 : CoeffVectors(len), p2 : CoeffVectors(len), x : Zq]
    /\ returned = "none"

\* Polynomial::eval of p1, of p2 and of their coefficient-wise sum
EvalZq ==
    /\ phase = "start"
    /\ LET p1 == InTable(ZqTable, args.p1)
           p2 == InTable(ZqTable, args.p2)
           sum == [i \in DOMAIN p1 |-> ZqAdd(p1[i], p2[i])]
       IN  returned' = [structure |-> "Zq", p1 |-> p1, p2 |-> p2,
                        eval1 |-> PolynomialEval(p1, args.x),
                        eval2 |-> PolynomialEval(p2, args.x),
                        eval_sum |-> PolynomialEval(sum, args.x)]
    /\ phase' = "evaluated"
    /\ UNCHANGED <<paramVars, pvssVars, jointVars, mtaVars, dleqVars, protoVars, args>>

\* CurvePolynomial::eval of p1, of p2 and of their coefficient-wise sum
EvalCurve ==
    /\ phase = "start"
    /\ LET p1 == InTable(PtTable, args.p1)
           p2 == InTable(PtTable, args.p2)
           sum == [i \in DOMAIN p1 |-> PtAdd(p1[i], p2[i])]
       IN  returned' = [structure |-> "G", p1 |-> p1, p2 |-> p2,
                        eval1 |-> CurvePolynomialEval(p1, args.x),
                        eval2 |-> CurvePolynomialEval(p2, args.x),
                        eval_sum |-> CurvePolynomialEval(sum, args.x)]
    /\ phase' = "evaluated"
    /\ UNCHANGED <<paramVars, pvssVars, jointVars, mtaVars, dleqVars, protoVars, args>>

\* QFPolynomial::eval of p1, of p2 and of their coefficient-wise composition
EvalQF ==
    /\ phase = "start"
    /\ LET p1 == InTable(QFTable, args.p1)
           p2 == InTable(QFTable, args.p2)
           sum == [i \in DOMAIN p1 |-> ClCompose(p1[i], p2[i])]
       IN  returned' = [structure |-> "QF", p1 |-> p1, p2 |-> p2,
                        eval1 |-> QFPolynomialEval(p1, args.x),
                        eval2 |-> QFPolynomialEval(p2, args.x),
                        eval_sum |-> QFPolynomialEval(sum, args.x)]
    /\ phase' = "evaluated"
    /\ UNCHANGED <<paramVars, pvssVars, jointVars, mtaVars, dleqVars, protoVars, args>>

NextEval == EvalZq \/ EvalCurve \/ EvalQF

SpecEval == InitEval /\ [][NextEval]_vars

(***************************** runs of the multi-receiver encryption *******)
\* Secret keys of the parties of a key ring, over any set of ids.
SecretKeys == UNION {[K -> 0 .. (HOrder - 1)] : K \in SUBSET Ids}
\* Plaintext maps whose ids are all in the key ring.
PlaintextMaps(K) == UNION {[P -> Zq] : P \in SUBSET K}

InitEnc ==
    /\ phase = "start"
    /\ pub_params = "none"
    /\ cl_sk \in SecretKeys
    /\ curve_gen = GGenerator
    /\ PvssIdle
    /\ JointIdle
    /\ MtaIdle
    /\ DleqIdle
    /\ ProtoIdle
    /\ \E plaintexts \in PlaintextMaps(DOMAIN cl_sk) :
          args = [keyring |-> [id \in DOMAIN cl_sk |-> PublicKeyGen(cl_sk[id])],
                  plaintexts |-> plaintexts]
    /\ returned = "none"

\* let (ciphertext, r) = CLMultiRecvCiphertext::new(cl, rng, keyring, plaintexts)
Encrypt ==
    /\ phase = "start"
    /\ \E r \in Mpzs :
          returned' = [ciphertext |->
                          CLMultiRecvCiphertextNew(args.keyring, args.plaintexts, r),
                       r |-> r]
    /\ phase' = "encrypted"
    /\ UNCHANGED <<paramVars, pvssVars, jointVars, mtaVars, dleqVars, protoVars, args>>

NextEnc == Encrypt

SpecEnc == InitEnc /\ [][NextEnc]_vars

(***************************** protocol_dkg_presign_sign ********************)
\* let parties: Vec<usize> = (0..n).collect();
Parties == 0 .. (N - 1)
PartiesExclMyself(myid) == Parties \ {myid}
\* round0 .. round4, in the order they are added to the RoundsRouter
Rounds == 0 .. 4
RoundKind ==
    <<"NiDkgMsg", "NonceGenMsg", "MtAwcMsg", "PreSignFinalMsg", "OnlineSignMsg">>
\* the rounds whose message carries proofs that a receiver verifies
ProofRounds == {0, 1, 2}

\* NiDkgOutput::from_combining: the parties among those handed in whose
\* message's proof verifies.
FromCombining(parties, messages) ==
    {j \in parties : \E m \in messages : m.from = j /\ m.ok}

\* rounds.complete(round_k) handing over only the messages whose proofs verify
RoundMessagesValidOnly(k) == {m \in network : m.round = k /\ m.ok}

RoundMessages(k) == {m \in network : m.round = k}

\* The messages main reads from stdin and hands to every party as msg.
Messages == {"pay alice", "pay bob"}

\* The round-k message of party myid with msg handed to the constructor of the
\* PreSignFinalMsg as well
BroadcastMsgInPreSignFinal(myid, k, ok, msg) ==
    [from |-> myid, round |-> k, kind |-> RoundKind[k + 1], ok |-> ok,
     text |-> IF k >= 3 THEN <<msg>> ELSE <<>>]

\* The round-k message of party myid: its sender, its round, its type, whether
\* its proofs verify, and the String handed to its constructor (msg is an
\* argument of OnlineSignMsg::new only).
Broadcast(myid, k, ok, msg) ==
    [from |-> myid, round |-> k, kind |-> RoundKind[k + 1], ok |-> ok,
     text |-> IF k = 4 THEN <<msg>> ELSE <<>>]

\* PreSignature::from(parties, myid, mta_messages, presign_final_messages, ..,
\* k_dkg_output): a function of the arguments it is given
PreSignatureFrom(parties, myid, mta_messages, presign_final_messages, k_parties) ==
    [parties |-> parties, myid |-> myid, mta_messages |-> mta_messages,
     presign_final_messages |-> presign_final_messages, k_parties |-> k_parties]

\* where a party goes after outgoing.send(..).await.unwrap() returned: on to
\* rounds.complete(round_k)
AfterSendNoCollect(k) ==
    IF k < 4 THEN [at |-> "send", round |-> k + 1] ELSE [at |-> "done", round |-> k]

AfterSend(k) == [at |-> "collect", round |-> k]

\* the party lists handed to the stages that run once round k is collected
HandedAfter(myid, k, xp) ==
    CASE k = 0 -> {[stage |-> "x_dkg", parties |-> Parties]}
      [] k = 1 -> {[stage |-> "k_dkg", parties |-> xp],
                   [stage |-> "gamma_dkg", parties |-> xp],
                   [stage |-> "mta", parties |-> PartiesExclMyself(myid)]}
      [] k = 2 -> {[stage |-> "presign_final", parties |-> PartiesExclMyself(myid)]}
      [] k = 3 -> {[stage |-> "presignature", parties |-> Parties],
                   [stage |-> "online_sign", parties |-> PartiesExclMyself(myid)]}
      [] k = 4 -> {[stage |-> "signature", parties |-> Parties]}

Init ==
    /\ phase = "protocol"
    /\ pub_params = "none"
    /\ cl_sk = "none"
    /\ curve_gen = GGenerator
    /\ PvssIdle
    /\ JointIdle
    /\ MtaIdle
    /\ DleqIdle
    /\ FnIdle
    /\ pc = [p \in Parties |-> [at |-> "send", round |-> 0]]
    /\ collected = [p \in Parties |-> {}]
    /\ x_parties = [p \in Parties |-> {}]
    /\ handed = [p \in Parties |-> {}]
    /\ failure = [p \in Parties |-> "none"]
    /\ result = [p \in Parties |-> "running"]
    /\ network = {}
    /\ corrupt \in {c \in SUBSET Parties : Cardinality(c) <= N - T}
    /\ sign_msg \in Messages
    /\ presignature = [p \in Parties |-> {}]

algebraVars == <<phase, paramVars, pvssVars, jointVars, mtaVars, dleqVars, fnVars>>

\* outgoing.send(Outgoing::broadcast(msg)).await returned Ok
Send(p) ==
    /\ pc[p].at = "send"
    /\ LET k == pc[p].round
       IN  /\ \E ok \in BOOLEAN :
                /\ (p \notin corrupt \/ k \notin ProofRounds) => ok
                /\ network' = network \cup {Broadcast(p, k, ok, sign_msg)}
           /\ pc' = [pc EXCEPT ![p] = AfterSend(k)]
    /\ UNCHANGED <<algebraVars, collected, x_parties, handed, failure, result, corrupt,
                   sign_msg, presignature>>

\* outgoing.send(..).await returned Err(SendError): .unwrap() panics
SendFail(p) ==
    /\ pc[p].at = "send"
    /\ failure' = [failure EXCEPT ![p] = "send"]
    /\ result' = [result EXCEPT ![p] = "panic"]
    /\ pc' = [pc EXCEPT ![p].at = "panicked"]
    /\ UNCHANGED <<algebraVars, collected, x_parties, handed, network, corrupt,
                   sign_msg, presignature>>

\* rounds.complete(round_k).await returned Ok: every other party's round-k
\* message is there; the stages up to the next send run
Collect(p) ==
    /\ pc[p].at = "collect"
    /\ LET k == pc[p].round
           xp == IF k = 0 THEN FromCombining(Parties, RoundMessages(0)) ELSE x_parties[p]
       IN  /\ \A q \in PartiesExclMyself(p) : \E m \in RoundMessages(k) : m.from = q
           /\ collected' = [collected EXCEPT ![p] = @ \cup {k}]
           /\ x_parties' = [x_parties EXCEPT ![p] = xp]
           /\ handed' = [handed EXCEPT ![p] = @ \cup HandedAfter(p, k, xp)]
           /\ presignature' =
                 IF k = 3
                 THEN [presignature EXCEPT ![p] =
                         {PreSignatureFrom(Parties, p, RoundMessages(2), RoundMessages(3), xp)}]
                 ELSE presignature
           /\ IF k < 4
              THEN /\ pc' = [pc EXCEPT ![p] = [at |-> "send", round |-> k + 1]]
                   /\ UNCHANGED result
              ELSE /\ pc' = [pc EXCEPT ![p].at = "done"]
                   /\ result' = [result EXCEPT ![p] = "ok"]
    /\ UNCHANGED <<algebraVars, failure, network, corrupt, sign_msg>>

\* rounds.complete(round_k).await returned Err(ReceiveError): .unwrap() panics
RecvFail(p) ==
    /\ pc[p].at = "collect"
    /\ failure' = [failure EXCEPT ![p] = "receive"]
    /\ result' = [result EXCEPT ![p] = "panic"]
    /\ pc' = [pc EXCEPT ![p].at = "panicked"]
    /\ UNCHANGED <<algebraVars, collected, x_parties, handed, network, corrupt,
                   sign_msg, presignature>>

Next == \E p \in Parties : Send(p) \/ SendFail(p) \/ Collect(p) \/ RecvFail(p)

Spec == Init /\ [][Next]_vars

\* Over a reliable broadcast transport no send and no collection fails, every
\* party's task keeps being scheduled, and every party broadcasts in every round.
NextReliable == \E p \in Parties : Send(p) \/ Collect(p)

SpecReliable ==
    /\ Init
    /\ [][NextReliable]_vars
    /\ \A p \in Parties : WF_vars(Send(p)) /\ WF_vars(Collect(p))

(***************************** properties of the PVSS proof ****************)
\* C2: PVSS completeness: the proof PvssNizk::prove returns for a dealing of
\* PvssDealing::new makes PvssNizk::verify return true for that same dealing,
\* params and generator, whatever the key ring, randomness and nonces.
C2_PvssCompleteness ==
    (phase = "verified" /\ ~tampered) => pvss_verdict = TRUE

\* C9: PVSS soundness against perturbation: an honestly produced dealing that
\* was changed in a single place, with its proof kept, is rejected by verify.
C9_PerturbedDealingRejected ==
    (phase = "verified" /\ tampered) => pvss_verdict = FALSE

\* A changed dealing was verified and rejected although the proof is one that
\* the unchanged dealing verifies under.
C9_Witness ==
    /\ phase = "verified"
    /\ tampered
    /\ pvss_verdict = FALSE
    /\ PvssNizkVerify(pvss_proof, dealt.dealing, pub_params, curve_gen)

(***************************** properties of the joint combination *********)
\* C5: when fewer than t dealings passed verification (none included), the
\* combination reports insufficient honest participation: it returns no
\* JointPvssResult and does not panic.
C5_InsufficientReported ==
    (phase = "combined" /\ Len(verified_dealings) < pub_params.t)
        => joint_outcome = "insufficient"

Orderings(n) ==
    {f \in [1 .. n -> 1 .. n] : \A i, j \in 1 .. n : f[i] = f[j] => i = j}

\* C7: JointPvssResult::new returns the same curve polynomial, the same
\* combined ciphertext and the same curve MACs for every ordering of a
\* non-empty slice of dealings with t coefficients each.
C7_OrderIndependent ==
    (phase = "combined" /\ joint_outcome = "returned")
        => \A f \in Orderings(Len(verified_dealings)) :
              JointPvssResultNew(pub_params,
                  [k \in 1 .. Len(verified_dealings) |-> verified_dealings[f[k]]]) = joint

\* Three different dealings were combined.
C7_Witness ==
    /\ phase = "combined"
    /\ joint_outcome = "returned"
    /\ Len(verified_dealings) = 3
    /\ verified_dealings[1] # verified_dealings[2]
    /\ verified_dealings[2] # verified_dealings[3]
    /\ verified_dealings[1] # verified_dealings[3]

\* what party id decrypts from one dealing
DealingPlain(dealing, id) ==
    Decrypt(cl_sk[id], dealing.shares_ciphertext.randomness,
            dealing.shares_ciphertext.encryption[id])

\* the sum mod q of what party id decrypts from each dealing of a list
RECURSIVE SumOfPlains(_, _)
SumOfPlains(dealings, id) ==
    IF dealings = <<>> THEN 0
    ELSE ZqAdd(DealingPlain(dealings[1], id), SumOfPlains(Tail(dealings), id))

\* C16: for a non-empty list of honestly built dealings, each component id of
\* the combined ciphertext of JointPvssResult::new decrypts, with the combined
\* randomness and under party id's secret key, to the sum mod q of the shares
\* the dealings encrypt for id.
C16_CombinedCiphertextDecryptsToSum ==
    (phase = "combined" /\ joint_outcome = "returned") =>
        \A id \in 1 .. pub_params.n :
            /\ \A k \in 1 .. Len(verified_dealings) :
                  DealingPlain(verified_dealings[k], id) \in Zq
            /\ Decrypt(cl_sk[id], joint.shares_ciphertext.randomness,
                       joint.shares_ciphertext.encryption[id])
                  = SumOfPlains(verified_dealings, id)

\* Three dealings with non-trivial randomness were combined under keys that
\* are not all trivial, and the sum differs from each single share.
C16_Witness ==
    /\ phase = "combined"
    /\ joint_outcome = "returned"
    /\ Len(verified_dealings) = 3
    /\ \A k \in 1 .. 3 : verified_dealings[k].shares_ciphertext.randomness # ClOne
    /\ \E id \in Ids :
          /\ cl_sk[id] # 0
          /\ \A k \in 1 .. 3 :
                SumOfPlains(verified_dealings, id) # DealingPlain(verified_dealings[k], id)

(***************************** properties of the MtA dealing and proof ******)
RECURSIVE SumOver(_, _)
SumOver(f, ids) ==
    IF ids = {} THEN 0
    ELSE LET id == CHOOSE x \in ids : TRUE
         IN  ZqAdd(f[id], SumOver(f, ids \ {id}))

\* what party id decrypts from the JointPvssResult, and from the MtA dealing
JointPlain(id) ==
    Decrypt(cl_sk[id], joint.shares_ciphertext.randomness,
            joint.shares_ciphertext.encryption[id])
MtaPlain(id) ==
    Decrypt(cl_sk[id], mta.dealing.shares_ciphertext.randomness,
            mta.dealing.shares_ciphertext.encryption[id])

\* C3: MtA correctness: each component of the dealing of MtaDealing::new
\* decrypts to s * x_id + pairwise_shares[id]; hence the negated pairwise share
\* plus the decrypted masked share is s * x_id, and summed over the ids it is
\* s times the sum of the x_id.
C3_MtaCorrect ==
    phase \in {"dealt", "proved", "verified"} =>
        /\ \A id \in Ids :
              /\ JointPlain(id) \in Zq
              /\ MtaPlain(id) =
                    ZqAdd(ZqMul(mta_scalar, JointPlain(id)), mta.pairwise_shares[id])
              /\ ZqAdd(ZqNeg(mta.pairwise_shares[id]), MtaPlain(id)) =
                    ZqMul(mta_scalar, JointPlain(id))
        /\ SumOver([id \in Ids |-> ZqAdd(ZqNeg(mta.pairwise_shares[id]), MtaPlain(id))], Ids)
              = ZqMul(mta_scalar, SumOver([id \in Ids |-> JointPlain(id)], Ids))

\* A dealing was made for a scalar other than 0 and 1 over shares that are not
\* all equal, under a ciphertext with non-trivial randomness.
C3_Witness ==
    /\ phase = "dealt"
    /\ mta_scalar \notin {0, 1}
    /\ JointPlain(1) # JointPlain(2)
    /\ JointPlain(1) # 0
    /\ joint.shares_ciphertext.randomness # ClOne

\* C17: MtA completeness: the proof MtaNizk::prove returns for a dealing of
\* MtaDealing::new makes MtaNizk::verify return true when it is given the same
\* pvss_result, dealing and generator and scalar_pub = generator^scalar,
\* whatever the scalar, the nonces and the order of the class-group elements.
C17_MtaCompleteness ==
    (phase = "verified" /\ verify_scalar = mta_scalar) => mta_verdict = TRUE

\* C10: MtA soundness: a proof made for a dealing rescaled by mta_scalar is
\* rejected by verify when scalar_pub commits to any other scalar.
C10_WrongScalarRejected ==
    (phase = "verified" /\ verify_scalar # mta_scalar) => mta_verdict = FALSE

\* A proof that verifies under its own scalar_pub was rejected under another.
C10_Witness ==
    /\ phase = "verified"
    /\ verify_scalar # mta_scalar
    /\ mta_verdict = FALSE
    /\ MtaNizkVerify(mta_proof, pub_params, joint, mta.dealing, curve_gen,
                     PtMul(curve_gen, mta_scalar))

(***************************** properties of the DLEQ proof ****************)
DleqRelation ==
    /\ dleq.pow1 = PtMul(dleq.gen1, dleq.x)
    /\ dleq.pow2 = PtMul(dleq.gen2, dleq.x)

Identity(structure) ==
    CASE structure = "Zq" -> 0
      [] structure = "G" -> GZero
      [] structure = "QF" -> ClOne

\* C13: new(degree, some_coeffs) returns, in each of the three structures and
\* without an error, a vector of exactly degree + 1 coefficients whose position
\* i holds some_coeffs[i] for every key i <= degree of the map and the
\* structure's identity at every other position; keys above degree are ignored.
C13_SparseToDenseLift ==
    phase = "lifted" =>
        /\ ~returned.panicked
        /\ DOMAIN returned.coeffs = 1 .. (args.degree + 1)
        /\ \A i \in 0 .. args.degree :
              returned.coeffs[i + 1] =
                  IF i \in DOMAIN returned.some_coeffs
                  THEN returned.some_coeffs[i]
                  ELSE Identity(returned.structure)

\* A class-group map with a key equal to the degree, a key above it and a
\* missing key below it was lifted.
C13_Witness ==
    /\ phase = "lifted"
    /\ returned.structure = "QF"
    /\ args.degree \in DOMAIN returned.some_coeffs
    /\ returned.some_coeffs[args.degree] # ClOne
    /\ \E k \in DOMAIN returned.some_coeffs : k > args.degree
    /\ \E i \in 0 .. args.degree : i \notin DOMAIN returned.some_coeffs

\* sum in Zq, point addition, composition in the class group
Combine(structure, a, b) ==
    CASE structure = "Zq" -> ZqAdd(a, b)
      [] structure = "G" -> PtAdd(a, b)
      [] structure = "QF" -> ClCompose(a, b)

\* C14: in each of the three structures, evaluating the coefficient-wise
\* combination of two equal-length coefficient vectors at x gives the
\* combination of the two evaluations at x.
C14_EvalLinear ==
    phase = "evaluated" =>
        returned.eval_sum = Combine(returned.structure, returned.eval1, returned.eval2)

\* Two different class-group polynomials of three coefficients were evaluated
\* at a point other than 0 and 1, to non-trivial values.
C14_Witness ==
    /\ phase = "evaluated"
    /\ returned.structure = "QF"
    /\ Len(returned.p1) = 3
    /\ returned.p1 # returned.p2
    /\ args.x \notin {0, 1}
    /\ returned.eval1 # ClOne
    /\ returned.eval2 # ClOne
    /\ returned.eval_sum # ClOne

(***************************** properties of the encryption ****************)
\* C15: CLMultiRecvCiphertext::new returns the one exponent r it drew and a
\* ciphertext with randomness h^r and exactly one component per plaintext id,
\* component_id = f^{m_id} * pk_id^r, so that each component with the shared
\* randomness decrypts under the matching secret key to that id's plaintext.
C15_SharedRandomnessDecrypts ==
    phase = "encrypted" =>
        LET ciphertext == returned.ciphertext
        IN  /\ ciphertext.randomness = PowerOfH(returned.r)
            /\ DOMAIN ciphertext.encryption = DOMAIN args.plaintexts
            /\ \A id \in DOMAIN args.plaintexts :
                  /\ ciphertext.encryption[id] =
                        ClCompose(PowerOfF(args.plaintexts[id]),
                                  ClExp(args.keyring[id], returned.r))
                  /\ Decrypt(cl_sk[id], ciphertext.randomness, ciphertext.encryption[id])
                        = args.plaintexts[id]

\* Two different plaintexts were encrypted under two different keys of a ring
\* of three, with an exponent that h^r does not vanish on.
C15_Witness ==
    /\ phase = "encrypted"
    /\ DOMAIN cl_sk = Ids
    /\ returned.ciphertext.randomness # ClOne
    /\ \E i, j \in DOMAIN args.plaintexts :
          /\ args.plaintexts[i] # args.plaintexts[j]
          /\ args.keyring[i] # args.keyring[j]
          /\ args.plaintexts[i] # 0

(***************************** properties of the protocol ******************)
\* C1: every party runs the five broadcast rounds in the order DKG, nonce-gen,
\* MtA, presignature-final, online-sign, and no party sends its round k+1
\* broadcast before its own collection of round k has completed.
C1_RoundsSequential ==
    \A m \in network :
        /\ m.kind = RoundKind[m.round + 1]
        /\ \A j \in Rounds : j < m.round =>
              /\ j \in collected[m.from]
              /\ \E m2 \in network : m2.from = m.from /\ m2.round = j

\* A party has sent its online-sign broadcast while another has not yet
\* finished collecting round 3.
C1_Witness ==
    \E p, q \in Parties :
        /\ \E m \in network : m.from = p /\ m.round = 4
        /\ pc[q] = [at |-> "collect", round |-> 3]

LaterStages ==
    {"k_dkg", "gamma_dkg", "mta", "presign_final", "presignature", "online_sign", "signature"}

\* C4: the party set handed to every stage after the DKG combination is the
\* qualified set recomputed from the verification results (without the party
\* itself where the stage takes the others), never the original party list.
C4_QualifiedSetHanded ==
    \A p \in Parties : \A h \in handed[p] :
        h.stage \in LaterStages =>
            h.parties \in {x_parties[p], x_parties[p] \ {p}}

\* C6: a party whose broadcast send failed, or whose round collection failed,
\* ends its run by returning an Err value naming the failure as a send or a
\* receive failure.
C6_TransportErrorReturned ==
    \A p \in Parties :
        /\ failure[p] = "send" => result[p] = "Err(send)"
        /\ failure[p] = "receive" => result[p] = "Err(receive)"

\* the round-k messages as they are in the run given the message other as msg
RoundMessagesUnder(k, other) ==
    {Broadcast(b.from, k, b.ok, other) : b \in RoundMessages(k)}

\* C11: the message to sign is not used before Step 4: whatever msg the run
\* was given, every round 0-3 broadcast and every assembled PreSignature is
\* what it would be in the run given any other msg (same keys, randomness and
\* deliveries); only the online-sign message may differ.
C11_PresignatureMessageIndependent ==
    \A other \in Messages :
        /\ \A b \in network :
              b.round <= 3 => b = Broadcast(b.from, b.round, b.ok, other)
        /\ \A p \in Parties : \A assembled \in presignature[p] :
              assembled =
                  PreSignatureFrom(Parties, p, RoundMessagesUnder(2, other),
                                   RoundMessagesUnder(3, other), x_parties[p])

\* A party assembled its PreSignature and sent an online-sign message that
\* would be another one under another msg.
C11_Witness ==
    \E p \in Parties :
        /\ presignature[p] # {}
        /\ \E b \in network :
              /\ b.from = p
              /\ b.round = 4
              /\ \E other \in Messages : Broadcast(p, 4, b.ok, other) # b

C18_DealingShape ==
    phase # "start" =>
        /\ Len(dealt.poly) = pub_params.t
        /\ DOMAIN dealt.shares = 1 .. pub_params.n
        /\ Len(dealt.dealing.curve_polynomial) = pub_params.t
        /\ DOMAIN dealt.dealing.shares_ciphertext.encryption = 1 .. pub_params.n
        /\ \A id \in 1 .. pub_params.n :
              /\ dealt.shares[id] = PolynomialEval(dealt.poly, ZqFrom(id))
              /\ CurvePolynomialEval(dealt.dealing.curve_polynomial, ZqFrom(id))
                    = PtMul(curve_gen, dealt.shares[id])
              /\ Decrypt(cl_sk[id], dealt.dealing.shares_ciphertext.randomness,
                         dealt.dealing.shares_ciphertext.encryption[id])
                    = dealt.shares[id]

\* A dealing of a non-constant polynomial under a generator other than
\* G::generator(), encrypted with non-trivial randomness to a non-trivial key.
C18_Witness ==
    /\ phase = "dealt"
    /\ curve_gen # GGenerator
    /\ dealt.poly[pub_params.t] # 0
    /\ dealt.shares[1] # dealt.shares[2]
    /\ dealt.dealing.shares_ciphertext.randomness # ClOne
    /\ \E id \in Ids : cl_sk[id] # 0

====
